---- MODULE Spec2Model ----
(***************************************************************************)
(* Ownership / sharing authorization of todopus.                           *)
(*                                                                         *)
(* The tables projects, project_shares, sections and tasks, the row level  *)
(* security policies of the consolidated migration, and the client hooks   *)
(* (useProjects, useSections, useTasks) that issue the requests.           *)
(*                                                                         *)
(* PostgreSQL applies the permissive policies of a table as follows        *)
(* (CREATE POLICY, "Policies Applied by Command Type"):                    *)
(*   - the policies that apply to a command are OR-ed;                     *)
(*   - a FOR ALL policy applies to every command, and a policy without     *)
(*     WITH CHECK uses its USING expression as the check of new rows;      *)
(*   - SELECT, UPDATE, DELETE see only the existing rows that pass USING;  *)
(*     a row that does not pass is silently skipped (no error);            *)
(*   - INSERT and UPDATE raise 42501 when the new row fails WITH CHECK;    *)
(*   - a command with a WHERE or RETURNING clause on the table also needs  *)
(*     the SELECT policies: on the existing row (as a filter) and on the   *)
(*     new row (as a check).                                               *)
(* Foreign keys are checked, and their ON DELETE actions run, without row  *)
(* level security.  A sub-select inside a policy reads the named table.    *)
(***************************************************************************)
EXTENDS Integers, FiniteSets, Sequences, TLC

\* ---------------------------------------------------------------- bounds
NumUsers == 2
MaxProjects == 2
MaxShares == 2
MaxSections == 1
MaxTasks == 1
\* Tasks of the task life cycle (TaskSpec).
MaxLifeTasks == 2
\* Tasks of the Todoist account that is synced.
MaxTodoist == 1

\* ------------------------------------------------------------- constants
\* SQL NULL of a nullable uuid column (ids are 1..N).
NULL == 0
\* The value of new Date().toISOString() stored in completed_at.
Now == 1
\* A due date that is a Monday, as a day number (day d + 3 is a Thursday).
Monday == 1
\* The text 'FREQ=WEEKLY;BYDAY=MO,TH' of recurrence_rule.
WeeklyMoTh == 1

Users == 1..NumUsers
ProjectIds == 1..MaxProjects
SectionIds == 1..MaxSections
TaskIds == 1..MaxTasks
LifeTaskIds == 1..MaxLifeTasks

SharePermission == {"view", "edit", "admin"}
TaskStatus == {"open", "done", "cancelled"}
SectionNames == {"a"}

\* Outcomes a request can have, as the client sees them.
Ok == "ok"
NoRows == "PGRST116"
RlsViolation == "42501"
FkViolation == "23503"
UniqueViolation == "23505"

VARIABLES projects, project_shares, sections, tasks

\* The state of MaestroDrawer (useState, the maestro-context query, the
\* running calls of handleSubmit and handleApproveActions) and the number of
\* tool_use ids the AI service has issued.
VARIABLES pendingActions, selectedActions, isLoading, error, context,
          submit, approvals, toolUses

\* scripts/sync-todoist.ts: what the Todoist API returns, and the run.
VARIABLES todoist, sync

drawer == <<pendingActions, selectedActions, isLoading, error, context,
            submit, approvals, toolUses>>

script == <<todoist, sync>>

vars == <<projects, project_shares, sections, tasks, drawer, script>>

\* The smallest id of Ids that keys no row of table (gen_random_uuid()).
FreshId(Ids, table) ==
    CHOOSE i \in Ids \ DOMAIN table : \A j \in Ids \ DOMAIN table : i <= j

\* table without the rows keyed by gone.
Without(table, gone) == [k \in DOMAIN table \ gone |-> table[k]]

\* ---------------------------------------------------------------------
\* Row level security: PROJECTS.  u is auth.uid(), p the row's id, r the row.
\* ---------------------------------------------------------------------
UsersCanViewOwnProjects(u, p, r) == r.owner_id = u

UsersCanViewSharedProjects(u, p, r) == <<p, u>> \in DOMAIN project_shares

UsersCanInsertOwnProjects(u, p, r) == r.owner_id = u

UsersCanUpdateOwnProjects(u, p, r) == r.owner_id = u

UsersCanUpdateSharedProjects(u, p, r) ==
    /\ <<p, u>> \in DOMAIN project_shares
    /\ project_shares[<<p, u>>] \in {"edit", "admin"}

\* Faulty variant: a holder of an admin share may delete the project as well.
UsersCanDeleteOwnProjects_OrAdmin(u, p, r) ==
    \/ r.owner_id = u
    \/ <<p, u>> \in DOMAIN project_shares /\ project_shares[<<p, u>>] = "admin"

UsersCanDeleteOwnProjects(u, p, r) == r.owner_id = u

ProjectsSelect(u, p, r) ==
    UsersCanViewOwnProjects(u, p, r) \/ UsersCanViewSharedProjects(u, p, r)

ProjectsInsertCheck(u, p, r) == UsersCanInsertOwnProjects(u, p, r)

\* Neither UPDATE policy has WITH CHECK: USING checks the new row too.
ProjectsUpdate(u, p, r) ==
    UsersCanUpdateOwnProjects(u, p, r) \/ UsersCanUpdateSharedProjects(u, p, r)

ProjectsDelete(u, p, r) == UsersCanDeleteOwnProjects(u, p, r)

\* ---------------------------------------------------------------------
\* Row level security: PROJECT_SHARES.  The row is keyed by <<p, w>>
\* (UNIQUE(project_id, shared_with_user_id)).
\* ---------------------------------------------------------------------
OwnersCanManageShares(u, p, w) ==
    p \in DOMAIN projects /\ projects[p].owner_id = u

\* Faulty variant: a holder of an edit share manages the shares as well.
AdminsCanManageShares_OrEdit(u, p, w) ==
    /\ <<p, u>> \in DOMAIN project_shares
    /\ project_shares[<<p, u>>] \in {"edit", "admin"}

AdminsCanManageShares(u, p, w) ==
    /\ <<p, u>> \in DOMAIN project_shares
    /\ project_shares[<<p, u>>] = "admin"

UsersCanViewTheirOwnShares(u, p, w) == w = u

SharesSelect(u, p, w) ==
    \/ OwnersCanManageShares(u, p, w)
    \/ AdminsCanManageShares(u, p, w)
    \/ UsersCanViewTheirOwnShares(u, p, w)

\* The two FOR ALL policies: INSERT check, UPDATE using and check, DELETE.
SharesModify(u, p, w) ==
    OwnersCanManageShares(u, p, w) \/ AdminsCanManageShares(u, p, w)

\* ---------------------------------------------------------------------
\* Row level security: SECTIONS.
\* ---------------------------------------------------------------------
UsersCanViewSections(u, r) ==
    /\ r.project_id \in DOMAIN projects
    /\ \/ projects[r.project_id].owner_id = u
       \/ <<r.project_id, u>> \in DOMAIN project_shares

\* Faulty variant: any share, of level view too, opens the sections for writing.
UsersCanModifySections_AnyShare(u, r) ==
    /\ r.project_id \in DOMAIN projects
    /\ \/ projects[r.project_id].owner_id = u
       \/ <<r.project_id, u>> \in DOMAIN project_shares

UsersCanModifySections(u, r) ==
    /\ r.project_id \in DOMAIN projects
    /\ \/ projects[r.project_id].owner_id = u
       \/ /\ <<r.project_id, u>> \in DOMAIN project_shares
          /\ project_shares[<<r.project_id, u>>] \in {"edit", "admin"}

SectionsSelect(u, r) == UsersCanViewSections(u, r) \/ UsersCanModifySections(u, r)

\* The FOR ALL policy: INSERT check, UPDATE using and check, DELETE.
SectionsModify(u, r) == UsersCanModifySections(u, r)

\* ---------------------------------------------------------------------
\* Row level security: TASKS.
\* ---------------------------------------------------------------------
\* Faulty variant: the owner test is missing, every Inbox task is visible.
UsersCanViewOwnInboxTasks_NoOwner(u, r) == r.project_id = NULL

UsersCanViewOwnInboxTasks(u, r) == r.owner_id = u /\ r.project_id = NULL

UsersCanInsertOwnInboxTasks(u, r) == r.owner_id = u /\ r.project_id = NULL

UsersCanUpdateOwnInboxTasksUsing(u, r) == r.owner_id = u /\ r.project_id = NULL

UsersCanUpdateOwnInboxTasksCheck(u, r) == r.owner_id = u

UsersCanDeleteOwnInboxTasks(u, r) == r.owner_id = u /\ r.project_id = NULL

\* Faulty variant: a share on the parent project also opens the child's tasks.
UsersCanViewTasksInAccessibleProjects_Inherit(u, r) ==
    /\ r.project_id # NULL
    /\ r.project_id \in DOMAIN projects
    /\ \/ projects[r.project_id].owner_id = u
       \/ <<r.project_id, u>> \in DOMAIN project_shares
       \/ <<projects[r.project_id].parent_id, u>> \in DOMAIN project_shares

UsersCanViewTasksInAccessibleProjects(u, r) ==
    /\ r.project_id # NULL
    /\ r.project_id \in DOMAIN projects
    /\ \/ projects[r.project_id].owner_id = u
       \/ <<r.project_id, u>> \in DOMAIN project_shares

\* FOR ALL, USING only.
UsersCanModifyOwnTasksInProjects(u, r) ==
    /\ r.project_id # NULL
    /\ r.owner_id = u
    /\ r.project_id \in DOMAIN projects
    /\ \/ projects[r.project_id].owner_id = u
       \/ <<r.project_id, u>> \in DOMAIN project_shares

\* FOR UPDATE, USING only.
UsersCanModifyTasksInEditableSharedProjects(u, r) ==
    /\ r.project_id # NULL
    /\ r.project_id \in DOMAIN projects
    /\ <<r.project_id, u>> \in DOMAIN project_shares
    /\ project_shares[<<r.project_id, u>>] \in {"edit", "admin"}

UsersCanInsertTasksInProjects(u, r) ==
    /\ r.owner_id = u
    /\ r.project_id # NULL
    /\ r.project_id \in DOMAIN projects
    /\ \/ projects[r.project_id].owner_id = u
       \/ /\ <<r.project_id, u>> \in DOMAIN project_shares
          /\ project_shares[<<r.project_id, u>>] \in {"edit", "admin"}

TasksSelect(u, r) ==
    \/ UsersCanViewOwnInboxTasks(u, r)
    \/ UsersCanViewTasksInAccessibleProjects(u, r)
    \/ UsersCanModifyOwnTasksInProjects(u, r)

TasksInsertCheck(u, r) ==
    \/ UsersCanInsertOwnInboxTasks(u, r)
    \/ UsersCanInsertTasksInProjects(u, r)
    \/ UsersCanModifyOwnTasksInProjects(u, r)

TasksUpdateUsing(u, r) ==
    \/ UsersCanUpdateOwnInboxTasksUsing(u, r)
    \/ UsersCanModifyOwnTasksInProjects(u, r)
    \/ UsersCanModifyTasksInEditableSharedProjects(u, r)

TasksUpdateCheck(u, r) ==
    \/ UsersCanUpdateOwnInboxTasksCheck(u, r)
    \/ UsersCanModifyOwnTasksInProjects(u, r)
    \/ UsersCanModifyTasksInEditableSharedProjects(u, r)

TasksDelete(u, r) ==
    \/ UsersCanDeleteOwnInboxTasks(u, r)
    \/ UsersCanModifyOwnTasksInProjects(u, r)

\* ---------------------------------------------------------------------
\* MaestroDrawer and the sync script before anything has happened in them.
\* ---------------------------------------------------------------------
\* The user of the session (supabase.auth.getUser()).
SessionUser == 1

\* error = null: nothing is shown.
NoError == ""

\* The data of the maestro-context query over empty tables.
NoData == [projects |-> <<>>, sections |-> <<>>, tasks |-> <<>>]

\* No call of handleSubmit is running; calls is the number of calls of
\* client.messages.create the latest one has made.
NoSubmit(calls) ==
    [pc |-> "idle", context |-> NoData, attempt |-> 0, calls |-> calls,
     lastError |-> {}]

\* useState initial values, and the first fetch of the context done.
DrawerInit ==
    /\ pendingActions = <<>>
    /\ selectedActions = {}
    /\ isLoading = FALSE
    /\ error = NoError
    /\ context = NoData
    /\ submit = NoSubmit(0)
    /\ approvals = <<>>
    /\ toolUses = 0

\* No data fetched from Todoist.
NoTodoist == [projects |-> <<>>, sections |-> <<>>, tasks |-> <<>>]

\* syncToOpus is not running; run counts the runs started, failed the
\* writes whose failure was logged.
NoSync(run, failed) ==
    [run |-> run, pc |-> "off", queue |-> <<>>, stillRemaining |-> <<>>,
     maxIterations |-> 0, processed |-> {}, projectMap |-> <<>>,
     sectionMap |-> <<>>, taskMap |-> <<>>, failed |-> failed]

ScriptInit ==
    /\ todoist = NoTodoist
    /\ sync = NoSync(0, 0)

\* ---------------------------------------------------------------------
\* Requests.  Each hook is an operator XxxRes giving what the client sees
\* (the outcome code, for reads also the rows) in the current state, and an
\* action giving the change of the tables; a request that is refused or
\* matches no row leaves every table as it is.
\* ---------------------------------------------------------------------
Init ==
    /\ projects = <<>>
    /\ project_shares = <<>>
    /\ sections = <<>>
    /\ tasks = <<>>
    /\ DrawerInit
    /\ ScriptInit

\* .single(): exactly one row, or the error PGRST116.
Single(rows) ==
    [res |-> IF Cardinality(rows) = 1 THEN Ok ELSE NoRows, data |-> rows]

\* useProject: select ... from projects where id = $id, .single()
ReadProject(u, id) ==
    Single({r \in {projects[q] : q \in DOMAIN projects \cap {id}} :
               ProjectsSelect(u, id, r)})

\* useSections: select * from sections where project_id = $projectId
ReadSections(u, projectId) ==
    {s \in DOMAIN sections :
        sections[s].project_id = projectId /\ SectionsSelect(u, sections[s])}

\* Faulty variant: a row that exists but is hidden is answered with "forbidden".
ReadTask_Forbidden(u, id) ==
    IF id \in DOMAIN tasks /\ ~TasksSelect(u, tasks[id])
    THEN [res |-> "403", data |-> {}]
    ELSE Single({r \in {tasks[t] : t \in DOMAIN tasks \cap {id}} : TasksSelect(u, r)})

\* useTask: select ... from tasks where id = $id, .single()
ReadTask(u, id) ==
    Single({r \in {tasks[t] : t \in DOMAIN tasks \cap {id}} : TasksSelect(u, r)})

\* ------------------------------------------------------------ projects
NewProject(u, parent_id) ==
    [owner_id |-> u, parent_id |-> parent_id, is_archived |-> FALSE]

CreateProjectRes(u, parent_id) ==
    LET id == FreshId(ProjectIds, projects)
        row == NewProject(u, parent_id)
    IN  IF ~(ProjectsInsertCheck(u, id, row) /\ ProjectsSelect(u, id, row))
        THEN RlsViolation
        ELSE IF parent_id # NULL /\ parent_id \notin DOMAIN projects
        THEN FkViolation
        ELSE Ok

\* useCreateProject: insert {...input, owner_id: user.id} returning *
CreateProject(u, parent_id) ==
    /\ DOMAIN projects # ProjectIds
    /\ CreateProjectRes(u, parent_id) = Ok
    /\ projects' = (FreshId(ProjectIds, projects) :> NewProject(u, parent_id))
                      @@ projects
    /\ UNCHANGED <<project_shares, sections, tasks>>

\* The payloads of useUpdateProject (UpdateProjectInput: name, description,
\* color, sort_order, is_archived; no owner_id, no parent_id).
\* Faulty variant: the payload may name owner_id.
ProjectInputs_WithOwner ==
    {[is_archived |-> a] : a \in BOOLEAN} \cup {[owner_id |-> w] : w \in Users}

ProjectInputs == {[is_archived |-> a] : a \in BOOLEAN}

\* row with the columns that input names set to input's values.
Patch(row, input) ==
    [c \in DOMAIN row |-> IF c \in DOMAIN input THEN input[c] ELSE row[c]]

UpdateProjectRes(u, id, input) ==
    IF ~(/\ id \in DOMAIN projects
         /\ ProjectsUpdate(u, id, projects[id])
         /\ ProjectsSelect(u, id, projects[id]))
    THEN NoRows
    ELSE LET row == Patch(projects[id], input)
         IN  IF ProjectsUpdate(u, id, row) /\ ProjectsSelect(u, id, row)
             THEN Ok
             ELSE RlsViolation

\* useUpdateProject: update projects set input where id = $id returning *
UpdateProject(u, id, input) ==
    /\ UpdateProjectRes(u, id, input) = Ok
    /\ projects' = [projects EXCEPT ![id] = Patch(@, input)]
    /\ UNCHANGED <<project_shares, sections, tasks>>

\* The projects that ON DELETE CASCADE of projects.parent_id removes with D.
RECURSIVE Descendants(_, _)
Descendants(D, n) ==
    IF n = 0 THEN D
    ELSE Descendants(D \cup {q \in DOMAIN projects : projects[q].parent_id \in D},
                     n - 1)

\* The tables after the rows of the projects in D are deleted:
\* project_shares and sections cascade, tasks keep their row and lose the
\* reference (ON DELETE SET NULL), also to a section that went away.
CascadeProjects(D) ==
    LET goneSections == {s \in DOMAIN sections : sections[s].project_id \in D}
    IN  /\ projects' = Without(projects, D)
        /\ project_shares' =
              Without(project_shares, {k \in DOMAIN project_shares : k[1] \in D})
        /\ sections' = Without(sections, goneSections)
        /\ tasks' = [t \in DOMAIN tasks |->
              [tasks[t] EXCEPT
                 !.project_id = IF @ \in D THEN NULL ELSE @,
                 !.section_id = IF @ \in goneSections THEN NULL ELSE @]]

\* The rows that  delete from projects where id = $id  made by u deletes.
DeleteProjectRows(u, id) ==
    {q \in DOMAIN projects \cap {id} :
        ProjectsDelete(u, q, projects[q]) /\ ProjectsSelect(u, q, projects[q])}

\* useDeleteProject: delete from projects where id = $id (no rows: no error)
DeleteProject(u, id) ==
    IF DeleteProjectRows(u, id) # {}
    THEN CascadeProjects(Descendants(DeleteProjectRows(u, id), MaxProjects))
    ELSE UNCHANGED <<projects, project_shares, sections, tasks>>

\* -------------------------------------------------------------- shares
CreateShareRes(u, p, w) ==
    IF ~SharesModify(u, p, w) THEN RlsViolation
    ELSE IF <<p, w>> \in DOMAIN project_shares THEN UniqueViolation
    ELSE IF p \notin DOMAIN projects THEN FkViolation
    ELSE Ok

\* docs "Share a project": insert into project_shares (no returning)
CreateShare(u, p, w, permission) ==
    /\ Cardinality(DOMAIN project_shares) < MaxShares
    /\ CreateShareRes(u, p, w) = Ok
    /\ project_shares' = (<<p, w>> :> permission) @@ project_shares
    /\ UNCHANGED <<projects, sections, tasks>>

\* The rows of project_shares that u may update or delete among those with
\* project_id = p and shared_with_user_id = w.
ShareRows(u, p, w) ==
    {k \in DOMAIN project_shares \cap {<<p, w>>} :
        SharesModify(u, k[1], k[2]) /\ SharesSelect(u, k[1], k[2])}

\* update project_shares set permission = $permission
\*   where project_id = $p and shared_with_user_id = $w
\* The new row has the same key and the policies read the table as it is
\* before the command: the new row passes its check as the old row did.
UpdateShare(u, p, w, permission) ==
    /\ ShareRows(u, p, w) # {}
    /\ project_shares' = [project_shares EXCEPT ![<<p, w>>] = permission]
    /\ UNCHANGED <<projects, sections, tasks>>

\* delete from project_shares where project_id = $p and shared_with_user_id = $w
DeleteShare(u, p, w) ==
    /\ project_shares' = Without(project_shares, ShareRows(u, p, w))
    /\ UNCHANGED <<projects, sections, tasks>>

\* ------------------------------------------------------------ sections
CreateSectionRes(u, projectId, name) ==
    LET row == [project_id |-> projectId, name |-> name]
    IN  IF ~(SectionsModify(u, row) /\ SectionsSelect(u, row)) THEN RlsViolation
        ELSE IF projectId \notin DOMAIN projects THEN FkViolation
        ELSE Ok

\* useCreateSection: insert {project_id, name, sort_order} returning *
CreateSection(u, projectId, name) ==
    /\ DOMAIN sections # SectionIds
    /\ CreateSectionRes(u, projectId, name) = Ok
    /\ sections' = (FreshId(SectionIds, sections) :>
                       [project_id |-> projectId, name |-> name]) @@ sections
    /\ UNCHANGED <<projects, project_shares, tasks>>

UpdateSectionRes(u, id, name) ==
    IF ~(/\ id \in DOMAIN sections
         /\ SectionsModify(u, sections[id]) /\ SectionsSelect(u, sections[id]))
    THEN NoRows
    ELSE LET row == [sections[id] EXCEPT !.name = name]
         IN  IF SectionsModify(u, row) /\ SectionsSelect(u, row)
             THEN Ok
             ELSE RlsViolation

\* useUpdateSection: update sections set name = $name where id = $id returning *
UpdateSection(u, id, name) ==
    /\ UpdateSectionRes(u, id, name) = Ok
    /\ sections' = [sections EXCEPT ![id].name = name]
    /\ UNCHANGED <<projects, project_shares, tasks>>

\* The tasks table after  update tasks set section_id = null where
\* section_id = $id  made by u: the rows u may update, unless a new row
\* fails its check (the statement then fails as a whole; the hook ignores it).
DetachTasks(u, id) ==
    LET hit == {t \in DOMAIN tasks :
                   /\ tasks[t].section_id = id
                   /\ TasksUpdateUsing(u, tasks[t]) /\ TasksSelect(u, tasks[t])}
        new(t) == [tasks[t] EXCEPT !.section_id = NULL]
    IN  IF \A t \in hit : TasksUpdateCheck(u, new(t)) /\ TasksSelect(u, new(t))
        THEN [t \in DOMAIN tasks |-> IF t \in hit THEN new(t) ELSE tasks[t]]
        ELSE tasks

\* The rows that  delete from sections where id = $id  made by u deletes.
DeleteSectionRows(u, id) ==
    {s \in DOMAIN sections \cap {id} :
        SectionsModify(u, sections[s]) /\ SectionsSelect(u, sections[s])}

\* useDeleteSection: the update of DetachTasks, then
\* delete from sections where id = $id (tasks.section_id ON DELETE SET NULL)
DeleteSection(u, id) ==
    /\ sections' = Without(sections, DeleteSectionRows(u, id))
    /\ tasks' = [t \in DOMAIN tasks |->
          [DetachTasks(u, id)[t] EXCEPT
              !.section_id = IF @ \in DeleteSectionRows(u, id) THEN NULL ELSE @]]
    /\ UNCHANGED <<projects, project_shares>>

\* --------------------------------------------------------------- tasks
\* The foreign keys of a tasks row hold (checked without row level security).
TaskRefsExist(r) ==
    /\ r.project_id = NULL \/ r.project_id \in DOMAIN projects
    /\ r.section_id = NULL \/ r.section_id \in DOMAIN sections
    /\ r.parent_task_id = NULL \/ r.parent_task_id \in DOMAIN tasks
    /\ r.blocked_by = NULL \/ r.blocked_by \in DOMAIN tasks

\* The row of an insert that names owner, project and section; the other
\* columns take their defaults (status 'open', the rest NULL).
NewTask(u, project_id, section_id) ==
    [owner_id |-> u, project_id |-> project_id, section_id |-> section_id,
     parent_task_id |-> NULL, status |-> "open", completed_at |-> NULL,
     blocked_by |-> NULL, due_date |-> NULL, recurrence_rule |-> NULL,
     recurrence_base_date |-> NULL, todoist_id |-> NULL]

CreateTaskRes(u, project_id, section_id) ==
    LET row == NewTask(u, project_id, section_id)
    IN  IF ~(TasksInsertCheck(u, row) /\ TasksSelect(u, row)) THEN RlsViolation
        ELSE IF ~TaskRefsExist(row) THEN FkViolation
        ELSE Ok

\* useCreateTask: insert {...input, owner_id: user.id} returning *
CreateTask(u, project_id, section_id) ==
    /\ DOMAIN tasks # TaskIds
    /\ CreateTaskRes(u, project_id, section_id) = Ok
    /\ tasks' = (FreshId(TaskIds, tasks) :> NewTask(u, project_id, section_id))
                   @@ tasks
    /\ UNCHANGED <<projects, project_shares, sections>>

\* The payloads of useUpdateTask (UpdateTaskInput) that name a project: a
\* move (Sidebar handleMoveToInbox, handleMoveToProject) and a project
\* picked in the editor with the section kept (TaskEditor handleSubmit).
TaskInputs ==
    {[project_id |-> p, section_id |-> NULL] : p \in ProjectIds \cup {NULL}}
      \cup {[project_id |-> p] : p \in ProjectIds \cup {NULL}}

UpdateTaskRes(u, id, input) ==
    IF ~(/\ id \in DOMAIN tasks
         /\ TasksUpdateUsing(u, tasks[id]) /\ TasksSelect(u, tasks[id]))
    THEN NoRows
    ELSE LET row == Patch(tasks[id], input)
         IN  IF ~(TasksUpdateCheck(u, row) /\ TasksSelect(u, row)) THEN RlsViolation
             ELSE IF ~TaskRefsExist(row) THEN FkViolation
             ELSE Ok

\* useUpdateTask: update tasks set input where id = $id returning *, .single()
UpdateTask(u, id, input) ==
    /\ UpdateTaskRes(u, id, input) = Ok
    /\ tasks' = [tasks EXCEPT ![id] = Patch(@, input)]
    /\ UNCHANGED <<projects, project_shares, sections>>

\* The rows that  delete from tasks where id = $id  made by u deletes.
DeleteTaskRows(u, id) ==
    {t \in DOMAIN tasks \cap {id} :
        TasksDelete(u, tasks[t]) /\ TasksSelect(u, tasks[t])}

\* The tasks that ON DELETE CASCADE of tasks.parent_task_id removes with D.
RECURSIVE Subtasks(_, _)
Subtasks(D, n) ==
    IF n = 0 THEN D
    ELSE Subtasks(D \cup {t \in DOMAIN tasks : tasks[t].parent_task_id \in D},
                  n - 1)

\* Faulty variant: a dependent of a deleted task is deleted with it.
CascadeTasks_Dependents(D) ==
    [t \in {k \in DOMAIN tasks \ D : tasks[k].blocked_by \notin D} |-> tasks[t]]

\* The tasks table after the rows in D are deleted: the subtasks go with
\* them, a dependent keeps its row and loses blocked_by (ON DELETE SET NULL).
CascadeTasks(D) ==
    [t \in DOMAIN tasks \ D |->
        [tasks[t] EXCEPT !.blocked_by = IF @ \in D THEN NULL ELSE @]]

\* useDeleteTask: delete from tasks where id = $id (no rows: no error)
DeleteTask(u, id) ==
    /\ tasks' = CascadeTasks(Subtasks(DeleteTaskRows(u, id),
                                      Cardinality(DOMAIN tasks)))
    /\ UNCHANGED <<projects, project_shares, sections>>

Next ==
    \/ \E u \in Users, p \in ProjectIds \cup {NULL} : CreateProject(u, p)
          /\ UNCHANGED <<drawer, script>>
    \/ \E u \in Users, id \in ProjectIds, input \in ProjectInputs :
          UpdateProject(u, id, input)
          /\ UNCHANGED <<drawer, script>>
    \/ \E u \in Users, id \in ProjectIds : DeleteProject(u, id)
          /\ UNCHANGED <<drawer, script>>
    \/ \E u, w \in Users, p \in ProjectIds, perm \in SharePermission :
          CreateShare(u, p, w, perm)
          /\ UNCHANGED <<drawer, script>>
    \/ \E u, w \in Users, p \in ProjectIds, perm \in SharePermission :
          UpdateShare(u, p, w, perm)
          /\ UNCHANGED <<drawer, script>>
    \/ \E u, w \in Users, p \in ProjectIds : DeleteShare(u, p, w)
          /\ UNCHANGED <<drawer, script>>
    \/ \E u \in Users, p \in ProjectIds, n \in SectionNames : CreateSection(u, p, n)
          /\ UNCHANGED <<drawer, script>>
    \/ \E u \in Users, id \in SectionIds, n \in SectionNames : UpdateSection(u, id, n)
          /\ UNCHANGED <<drawer, script>>
    \/ \E u \in Users, id \in SectionIds : DeleteSection(u, id)
          /\ UNCHANGED <<drawer, script>>
    \/ \E u \in Users, p \in ProjectIds \cup {NULL}, s \in SectionIds \cup {NULL} :
          CreateTask(u, p, s)
          /\ UNCHANGED <<drawer, script>>
    \/ \E u \in Users, id \in TaskIds, input \in TaskInputs : UpdateTask(u, id, input)
          /\ UNCHANGED <<drawer, script>>
    \/ \E u \in Users, id \in TaskIds : DeleteTask(u, id)
          /\ UNCHANGED <<drawer, script>>

Spec == Init /\ [][Next]_vars

\* ---------------------------------------------------------------------
\* The life cycle of tasks: completion, dependencies (blocked_by),
\* subtasks, recurrence as imported by the Todoist sync.
\* ---------------------------------------------------------------------
TaskInit ==
    /\ projects = <<>>
    /\ project_shares = <<>>
    /\ sections = <<>>
    /\ tasks = <<>>
    /\ DrawerInit
    /\ ScriptInit
    /\ DrawerInit
    /\ ScriptInit

\* The row of useCreateTask for an Inbox task under the parent parent_task_id.
NewSubtask(u, parent_task_id) ==
    [NewTask(u, NULL, NULL) EXCEPT !.parent_task_id = parent_task_id]

CreateSubtaskRes(u, parent_task_id) ==
    LET row == NewSubtask(u, parent_task_id)
    IN  IF ~(TasksInsertCheck(u, row) /\ TasksSelect(u, row)) THEN RlsViolation
        ELSE IF ~TaskRefsExist(row) THEN FkViolation
        ELSE Ok

\* useCreateTask with CreateTaskInput.parent_task_id (NULL: a plain task)
CreateSubtask(u, parent_task_id) ==
    /\ DOMAIN tasks # LifeTaskIds
    /\ CreateSubtaskRes(u, parent_task_id) = Ok
    /\ tasks' = (FreshId(LifeTaskIds, tasks) :> NewSubtask(u, parent_task_id))
                   @@ tasks
    /\ UNCHANGED <<projects, project_shares, sections>>

\* The payloads of useUpdateTask (UpdateTaskInput) that name blocked_by or
\* status; nothing in the hook looks at the values.
LifecycleInputs ==
    {[blocked_by |-> b] : b \in LifeTaskIds \cup {NULL}}
      \cup {[status |-> st] : st \in TaskStatus}

\* Faulty variant: completion stores the status cancelled.
CompleteInput_Cancelled == [status |-> "cancelled", completed_at |-> Now]

\* The payload of useCompleteTask.
CompleteInput == [status |-> "done", completed_at |-> Now]

\* The payload of useUncompleteTask.
UncompleteInput == [status |-> "open", completed_at |-> NULL]

CompleteTaskRes(u, id) == UpdateTaskRes(u, id, CompleteInput)

\* useCompleteTask: update tasks set status = 'done', completed_at = now()
\* where id = $id returning *, .single(); nothing else is written.
CompleteTask(u, id) ==
    /\ CompleteTaskRes(u, id) = Ok
    /\ tasks' = [tasks EXCEPT ![id] = Patch(@, CompleteInput)]
    /\ UNCHANGED <<projects, project_shares, sections>>

UncompleteTaskRes(u, id) == UpdateTaskRes(u, id, UncompleteInput)

\* useUncompleteTask: update tasks set status = 'open', completed_at = null
UncompleteTask(u, id) ==
    /\ UncompleteTaskRes(u, id) = Ok
    /\ tasks' = [tasks EXCEPT ![id] = Patch(@, UncompleteInput)]
    /\ UNCHANGED <<projects, project_shares, sections>>

\* ------------------------------------------------------- Todoist sync
TodoistIds == 1..MaxTodoist

\* TodoistTask.due: none, a plain date, a recurring date with its text.
NoDue == [date |-> NULL, is_recurring |-> FALSE, string |-> ""]

TodoistDues ==
    {NoDue,
     [date |-> Monday, is_recurring |-> FALSE, string |-> "mon"],
     [date |-> Monday, is_recurring |-> TRUE, string |-> "every mon, thu"]}

\* todoistToRRule on the texts of TodoistDues: a text that does not start
\* with "every" gives no rule, a list of weekdays gives FREQ=WEEKLY;BYDAY=.
todoistToRRule(todoistString) ==
    IF todoistString = "every mon, thu" THEN WeeklyMoTh ELSE NULL

\* parseDue
parseDue(due) ==
    IF due = NoDue
    THEN [due_date |-> NULL, recurrence_rule |-> NULL,
          recurrence_base_date |-> NULL]
    ELSE IF due.is_recurring /\ due.string # ""
    THEN [due_date |-> due.date,
          recurrence_rule |-> todoistToRRule(due.string),
          recurrence_base_date |-> due.date]
    ELSE [due_date |-> due.date, recurrence_rule |-> NULL,
          recurrence_base_date |-> NULL]

\* taskData of an active Todoist task of the Todoist Inbox without parent.
TaskData(u, tid, due) ==
    [owner_id |-> u, project_id |-> NULL, section_id |-> NULL,
     parent_task_id |-> NULL, status |-> "open",
     due_date |-> parseDue(due).due_date,
     recurrence_rule |-> parseDue(due).recurrence_rule,
     recurrence_base_date |-> parseDue(due).recurrence_base_date,
     todoist_id |-> tid]

\* taskMap.get(t.id): the task of u that carries the Todoist id.
ExistingOpusId(u, tid) ==
    {id \in DOMAIN tasks :
        /\ TasksSelect(u, tasks[id])
        /\ tasks[id].owner_id = u
        /\ tasks[id].todoist_id = tid}

SyncInsertRes(u, tid, due) ==
    LET row == Patch(NewTask(u, NULL, NULL), TaskData(u, tid, due))
    IN  IF ~(TasksInsertCheck(u, row) /\ TasksSelect(u, row)) THEN RlsViolation
        ELSE IF \E t \in DOMAIN tasks : tasks[t].todoist_id = tid
        THEN UniqueViolation
        ELSE Ok

\* syncToOpus, step 3, for one Todoist task: update the task that carries
\* its id with taskData, or insert taskData when there is none.
SyncTask(u, tid, due) ==
    IF ExistingOpusId(u, tid) # {}
    THEN \E id \in ExistingOpusId(u, tid) :
            UpdateTask(u, id, TaskData(u, tid, due))
    ELSE /\ DOMAIN tasks # LifeTaskIds
         /\ SyncInsertRes(u, tid, due) = Ok
         /\ tasks' = (FreshId(LifeTaskIds, tasks) :>
                         Patch(NewTask(u, NULL, NULL), TaskData(u, tid, due)))
                        @@ tasks
         /\ UNCHANGED <<projects, project_shares, sections>>

TaskNext ==
    \/ \E u \in Users, q \in LifeTaskIds \cup {NULL} : CreateSubtask(u, q)
          /\ UNCHANGED <<drawer, script>>
    \/ \E u \in Users, id \in LifeTaskIds, input \in LifecycleInputs :
          UpdateTask(u, id, input)
          /\ UNCHANGED <<drawer, script>>
    \/ \E u \in Users, id \in LifeTaskIds : CompleteTask(u, id)
          /\ UNCHANGED <<drawer, script>>
    \/ \E u \in Users, id \in LifeTaskIds : UncompleteTask(u, id)
          /\ UNCHANGED <<drawer, script>>
    \/ \E u \in Users, id \in LifeTaskIds : DeleteTask(u, id)
          /\ UNCHANGED <<drawer, script>>
    \/ \E u \in Users, tid \in TodoistIds, due \in TodoistDues :
          SyncTask(u, tid, due)
          /\ UNCHANGED <<drawer, script>>

TaskSpec == TaskInit /\ [][TaskNext]_vars

\* ---------------------------------------------------------------------
\* Maestro: the chat request (handleSubmit, chat) and the Action Queue
\* (handleApproveActions, handleClearActions, toggleAction).  The
\* transcript (messages, input) is not followed.
\* ---------------------------------------------------------------------
\* tool_use ids the AI service issues, and clicks on Approve Selected.
MaxActions == 2
MaxApprovals == 2
\* Fragments of an error message that the code looks for.
MaxMarkers == 2

ActionIds == 1..MaxActions
ApprovalIds == 1..MaxApprovals

\* The task a proposed action names in its payload (task_id).
ProposedTaskIds == {1}

\* PendingAction (toolCallToAction) of the tool calls create_task,
\* complete_task and delete_task; id is the tool_use id.
ProposableActions(id) ==
    {[id |-> id, type |-> "create_task", task_id |-> NULL]}
      \cup {[id |-> id, type |-> ty, task_id |-> t] :
               ty \in {"complete_task", "delete_task"}, t \in ProposedTaskIds}

\* response.pendingActions: no tool call, or calls with the next ids.
RECURSIVE Proposals(_, _)
Proposals(first, n) ==
    IF n = 0 THEN {<<>>}
    ELSE {<<>>} \cup
         {<<a>> \o rest : a \in ProposableActions(first),
                          rest \in Proposals(first + 1, n - 1)}

ActionIdsOf(actions) == {actions[i].id : i \in 1..Len(actions)}

\* useMaestroContext queryFn: the projects, sections and open tasks that
\* the select policies show to the user.
FetchContext ==
    [projects |->
        [p \in {q \in DOMAIN projects :
                   ProjectsSelect(SessionUser, q, projects[q])} |-> projects[p]],
     sections |->
        [s \in {q \in DOMAIN sections :
                   SectionsSelect(SessionUser, sections[q])} |-> sections[s]],
     tasks |->
        [t \in {q \in DOMAIN tasks :
                   /\ TasksSelect(SessionUser, tasks[q])
                   /\ tasks[q].status = "open"} |-> tasks[t]]]

\* The query resolves (refetch of handleApproveActions, refetch on window
\* focus): the next render sees the data of now.
ContextRefetched ==
    /\ context # FetchContext
    /\ context' = FetchContext
    /\ UNCHANGED <<projects, project_shares, sections, tasks, pendingActions,
                   selectedActions, isLoading, error, submit, approvals,
                   toolUses, script>>

\* useEffect on [pendingActions]: select all actions when there are any.
SelectAllEffect(pending, selected) ==
    IF Len(pending) > 0 THEN ActionIdsOf(pending) ELSE selected

\* ------------------------------------------------------ error messages
\* An error message is the set of the fragments it contains.
Markers ==
    {"401", "invalid_api_key", "429", "rate_limit", "500", "internal server",
     "Internal Server", "529", "overloaded", "Overloaded", "insufficient_quota"}

ErrorMessages == {m \in SUBSET Markers : Cardinality(m) <= MaxMarkers}

\* String.prototype.toLowerCase on a fragment and on a message.
lower(x) ==
    IF x = "Internal Server" THEN "internal server"
    ELSE IF x = "Overloaded" THEN "overloaded"
    ELSE x

toLowerCase(m) == {lower(x) : x \in m}

includes(m, x) == x \in m

isRetryable(m) ==
    LET errorMessage == toLowerCase(m)
    IN  \/ includes(errorMessage, "500")
        \/ includes(errorMessage, "internal server")
        \/ includes(errorMessage, "overloaded")
        \/ includes(errorMessage, "529")

InvalidKey == "Invalid API key. Please check your key in Settings."
RateLimited == "Rate limited. Please wait a moment and try again."
Unavailable == "Anthropic API is temporarily unavailable. Please try again."
Overloaded == "Anthropic API is overloaded. Please try again in a moment."
QuotaExceeded == "API quota exceeded. Please check your Anthropic account."
Generic == "Something went wrong. Please try again."

parseApiError(m) ==
    IF includes(m, "401") \/ includes(m, "invalid_api_key") THEN InvalidKey
    ELSE IF includes(m, "429") \/ includes(m, "rate_limit") THEN RateLimited
    ELSE IF includes(m, "500") \/ includes(m, "internal server") THEN Unavailable
    ELSE IF includes(m, "529") \/ includes(m, "overloaded") THEN Overloaded
    ELSE IF includes(m, "insufficient_quota") THEN QuotaExceeded
    ELSE Generic

\* Faulty variant: a failed call is never tried again.
Rethrows_Always(m, attempt) == TRUE

\* chat, catch block: the error is thrown on instead of tried again.
Rethrows(m, attempt) == ~isRetryable(m) \/ attempt = 1

\* -------------------------------------------------------- handleSubmit
\* handleSubmit up to  await refetchContext(): the closure holds the
\* context of the render in which the message was sent.
handleSubmit ==
    /\ ~isLoading
    /\ isLoading' = TRUE
    /\ error' = NoError
    /\ submit' = [pc |-> "refetch", context |-> context, attempt |-> 0,
                  calls |-> 0, lastError |-> {}]
    /\ UNCHANGED <<projects, project_shares, sections, tasks, pendingActions,
                   selectedActions, context, approvals, toolUses, script>>

\* The refetch resolves and chat(apiKey, newMessages, context) makes its
\* first call of client.messages.create.
RefetchResolves ==
    /\ submit.pc = "refetch"
    /\ context' = FetchContext
    /\ submit' = [submit EXCEPT !.pc = "call", !.calls = 1]
    /\ UNCHANGED <<projects, project_shares, sections, tasks, pendingActions,
                   selectedActions, isLoading, error, approvals, toolUses,
                   script>>

\* The call resolves: chat returns, the proposals are appended to the
\* queue (and the effect selects every pending action), finally.
CreateResolves(actions) ==
    /\ submit.pc = "call"
    /\ pendingActions' =
          IF Len(actions) > 0 THEN pendingActions \o actions ELSE pendingActions
    /\ selectedActions' =
          IF Len(actions) > 0
          THEN SelectAllEffect(pendingActions', selectedActions)
          ELSE selectedActions
    /\ toolUses' = toolUses + Len(actions)
    /\ isLoading' = FALSE
    /\ submit' = NoSubmit(submit.calls)
    /\ UNCHANGED <<projects, project_shares, sections, tasks, error, context,
                   approvals, script>>

\* The call rejects with the message m: chat throws the parsed message
\* (handleSubmit shows it, finally) or waits to try again.
CreateRejects(m) ==
    /\ submit.pc = "call"
    /\ IF Rethrows(m, submit.attempt)
       THEN /\ error' = parseApiError(m)
            /\ isLoading' = FALSE
            /\ submit' = NoSubmit(submit.calls)
       ELSE /\ submit' = [submit EXCEPT !.pc = "wait", !.lastError = m]
            /\ UNCHANGED <<error, isLoading>>
    /\ UNCHANGED <<projects, project_shares, sections, tasks, pendingActions,
                   selectedActions, context, approvals, toolUses, script>>

\* setTimeout(resolve, 1000) fires: the loop makes its next call.
TimerFires ==
    /\ submit.pc = "wait"
    /\ submit.attempt + 1 < 2
    /\ submit' = [submit EXCEPT !.pc = "call", !.attempt = @ + 1,
                                !.calls = @ + 1]
    /\ UNCHANGED <<projects, project_shares, sections, tasks, pendingActions,
                   selectedActions, isLoading, error, context, approvals,
                   toolUses, script>>

\* -------------------------------------------------------- Action Queue
\* toggleAction, on a checkbox of the queue.
toggleAction(actionId) ==
    /\ actionId \in ActionIdsOf(pendingActions)
    /\ selectedActions' =
          IF actionId \in selectedActions
          THEN selectedActions \ {actionId}
          ELSE selectedActions \cup {actionId}
    /\ UNCHANGED <<projects, project_shares, sections, tasks, pendingActions,
                   isLoading, error, context, submit, approvals, toolUses,
                   script>>

\* handleClearActions, on "Clear all" (shown while something is pending).
handleClearActions ==
    /\ Len(pendingActions) > 0
    /\ pendingActions' = <<>>
    /\ selectedActions' = {}
    /\ UNCHANGED <<projects, project_shares, sections, tasks, isLoading, error,
                   context, submit, approvals, toolUses, script>>

\* actionsToExecute of handleApproveActions.
ActionsToExecute ==
    SelectSeq(pendingActions, LAMBDA a : a.id \in selectedActions)

\* handleApproveActions, on "Approve Selected" (enabled while something is
\* selected), up to the first  await executeAction: the call keeps
\* actionsToExecute and selectedActions of the render of the click; pos is
\* the action it awaits, failed the actions whose error it has logged.
handleApproveActions ==
    /\ Len(pendingActions) > 0
    /\ selectedActions # {}
    /\ Len(ActionsToExecute) > 0
    /\ DOMAIN approvals # ApprovalIds
    /\ approvals' =
          (FreshId(ApprovalIds, approvals) :>
              [actionsToExecute |-> ActionsToExecute,
               selectedActions |-> selectedActions, pos |-> 1, failed |-> {}])
            @@ approvals
    /\ UNCHANGED <<projects, project_shares, sections, tasks, pendingActions,
                   selectedActions, isLoading, error, context, submit,
                   toolUses, script>>

\* What the mutation of executeAction(action, executor) answers.
executeActionRes(action) ==
    IF action.type = "create_task" THEN CreateSubtaskRes(SessionUser, NULL)
    ELSE IF action.type = "complete_task"
    THEN CompleteTaskRes(SessionUser, action.task_id)
    ELSE Ok

\* executeAction with the executor of handleApproveActions.
executeAction(action) ==
    IF action.type = "create_task" THEN CreateSubtask(SessionUser, NULL)
    ELSE IF action.type = "complete_task"
    THEN CompleteTask(SessionUser, action.task_id)
    ELSE DeleteTask(SessionUser, action.task_id)

\* Faulty variant: the first failure ends the loop.
AfterCatch_Abort(approval, action, res) ==
    [approval EXCEPT
        !.pos = IF res = Ok THEN @ + 1 ELSE Len(approval.actionsToExecute) + 1,
        !.failed = IF res = Ok THEN @ ELSE @ \cup {action.id}]

\* The loop of handleApproveActions after the awaited action has settled:
\* a failure is logged (console.error), the loop goes on.
AfterCatch(approval, action, res) ==
    [approval EXCEPT !.pos = @ + 1,
                     !.failed = IF res = Ok THEN @ ELSE @ \cup {action.id}]

Returned(approval) == approval.pos > Len(approval.actionsToExecute)

\* The action that the call k of handleApproveActions awaits settles; after
\* the last one the call removes what was selected at the click from the
\* queue, clears the selection (the effect selects what is left) and asks
\* for a refetch of the context (see ContextRefetched).
ActionSettles(k) ==
    /\ k \in DOMAIN approvals
    /\ ~Returned(approvals[k])
    /\ LET approval == approvals[k]
           action == approval.actionsToExecute[approval.pos]
           res == executeActionRes(action)
           after == AfterCatch(approval, action, res)
       IN  /\ IF res = Ok THEN executeAction(action)
              ELSE UNCHANGED <<projects, project_shares, sections, tasks>>
           /\ approvals' = [approvals EXCEPT ![k] = after]
           /\ IF Returned(after)
              THEN /\ pendingActions' =
                         SelectSeq(pendingActions,
                                   LAMBDA a : a.id \notin approval.selectedActions)
                   /\ selectedActions' = SelectAllEffect(pendingActions', {})
              ELSE UNCHANGED <<pendingActions, selectedActions>>
    /\ UNCHANGED <<isLoading, error, context, submit, toolUses, script>>

\* Error messages of the two kinds, one of each.
SomeErrorMessages == {{"529", "Overloaded"}, {"401"}}

MaestroInit ==
    /\ projects = <<>>
    /\ project_shares = <<>>
    /\ sections = <<>>
    /\ tasks = <<>>
    /\ DrawerInit
    /\ ScriptInit

\* The drawer, and the user completing a task in the list beside it.
MaestroNext ==
    \/ handleSubmit
    \/ RefetchResolves
    \/ \E actions \in Proposals(toolUses + 1, MaxActions - toolUses) :
          CreateResolves(actions)
    \/ \E m \in SomeErrorMessages : CreateRejects(m)
    \/ TimerFires
    \/ ContextRefetched
    \/ \E actionId \in ActionIds : toggleAction(actionId)
    \/ handleClearActions
    \/ handleApproveActions
    \/ \E k \in ApprovalIds : ActionSettles(k)
    \/ \E id \in LifeTaskIds : CompleteTask(SessionUser, id)
          /\ UNCHANGED <<drawer, script>>

MaestroSpec == MaestroInit /\ [][MaestroNext]_vars

\* The chat request alone, with every error message; an awaited call and
\* the timer of the backoff come back.
ChatNext ==
    \/ handleSubmit
    \/ RefetchResolves
    \/ \E actions \in Proposals(toolUses + 1, MaxActions - toolUses) :
          CreateResolves(actions)
    \/ \E m \in ErrorMessages : CreateRejects(m)
    \/ TimerFires

ChatSpec ==
    /\ MaestroInit
    /\ [][ChatNext]_vars
    /\ WF_vars(RefetchResolves)
    /\ WF_vars(\E actions \in Proposals(toolUses + 1, MaxActions - toolUses) :
                  CreateResolves(actions))
    /\ WF_vars(TimerFires)

\* ---------------------------------------------------------------------
\* scripts/sync-todoist.ts: syncToOpus, run by the user after another run.
\* ---------------------------------------------------------------------
\* Todoist projects besides the Inbox project, Todoist tasks, runs of the
\* script, writes that fail for a reason outside the database (network).
MaxSyncProjects == 2
MaxSyncTasks == 2
MaxRuns == 2
MaxWriteFailures == 1
\* let maxIterations = 10
MaxIterations == 10

\* The Todoist id of the project with is_inbox_project.
InboxProject == 1
SyncProjectIds == 2..(MaxSyncProjects + 1)
SyncSectionIds == 1..MaxSections
SyncTaskIds == 1..MaxSyncTasks

\* What GET /projects can return: the Inbox project and the others, each
\* below no project, below the Inbox project or below another one.
TodoistProjects ==
    {<<[id |-> InboxProject, parent_id |-> NULL, order |-> 0,
        is_inbox_project |-> TRUE]>>
       \o [i \in 1..MaxSyncProjects |->
             [id |-> i + 1, parent_id |-> f[i + 1], order |-> i,
              is_inbox_project |-> FALSE]] :
     f \in {g \in [SyncProjectIds -> {NULL, InboxProject} \cup SyncProjectIds] :
               \A i \in SyncProjectIds : g[i] # i}}

\* GET /sections: one section per id, in the Inbox project or in project 2.
TodoistSections ==
    {[i \in SyncSectionIds |-> [id |-> i, project_id |-> f[i], order |-> i]] :
     f \in [SyncSectionIds -> {InboxProject, 2}]}

\* GET /tasks (the active tasks): each in the Inbox project or in project 2,
\* the first in a section or not and with or without a recurring due date,
\* each a subtask of another one or of none.
TodoistTasks ==
    {[i \in SyncTaskIds |->
         [id |-> i, project_id |-> pr[i],
          section_id |-> IF i = 1 THEN sec ELSE NULL,
          parent_id |-> pa[i], order |-> i, is_completed |-> FALSE,
          due |-> IF i = 1 THEN due ELSE NoDue]] :
     pr \in [SyncTaskIds -> {InboxProject, 2}],
     pa \in {g \in [SyncTaskIds -> {NULL} \cup SyncTaskIds] :
                \A i \in SyncTaskIds : g[i] # i},
     sec \in {NULL} \cup SyncSectionIds,
     due \in {NoDue, [date |-> Monday, is_recurring |-> TRUE,
                      string |-> "every mon, thu"]}}

\* Map.get(key) || null
Get(map, key) == IF key \in DOMAIN map THEN map[key] ELSE NULL

\* The lookup maps todoist_id -> id of the rows the selects of the script
\* return (projects and tasks of the user, sections the user can see).
ExistingProjects(u) ==
    {p \in DOMAIN projects :
        /\ ProjectsSelect(u, p, projects[p]) /\ projects[p].owner_id = u
        /\ projects[p].todoist_id # NULL}

ExistingSections(u) ==
    {s \in DOMAIN sections :
        SectionsSelect(u, sections[s]) /\ sections[s].todoist_id # NULL}

ExistingTasks(u) ==
    {t \in DOMAIN tasks :
        /\ TasksSelect(u, tasks[t]) /\ tasks[t].owner_id = u
        /\ tasks[t].todoist_id # NULL}

LookupMap(table, rows) ==
    [tid \in {table[r].todoist_id : r \in rows} |->
        CHOOSE r \in rows : table[r].todoist_id = tid]

\* [...projects].filter(p => !p.is_inbox_project).sort((a, b) => a.order - b.order)
sortedProjects ==
    SortSeq(SelectSeq(todoist.projects, LAMBDA p : ~p.is_inbox_project),
            LAMBDA a, b : a.order < b.order)

\* [...tasks].sort: tasks without parent first, then by order.
sortedTasks ==
    SortSeq(todoist.tasks,
            LAMBDA a, b :
               \/ a.parent_id = NULL /\ b.parent_id # NULL
               \/ (a.parent_id = NULL) = (b.parent_id = NULL) /\ a.order < b.order)

\* syncToOpus up to the loop over the projects: fetch from Todoist (the
\* same data in every run), read the lookup maps.
StartRun(u) ==
    /\ sync.pc \in {"off", "done"}
    /\ sync.run < MaxRuns
    /\ sync' = [run |-> sync.run + 1, pc |-> "projects",
                queue |-> sortedProjects, stillRemaining |-> <<>>,
                maxIterations |-> MaxIterations, processed |-> {},
                projectMap |-> LookupMap(projects, ExistingProjects(u)),
                sectionMap |-> LookupMap(sections, ExistingSections(u)),
                taskMap |-> LookupMap(tasks, ExistingTasks(u)),
                failed |-> sync.failed]
    /\ UNCHANGED <<projects, project_shares, sections, tasks, drawer, todoist>>

\* A write may fail for a reason outside the database.
WriteArrives(ok) == ok \/ sync.failed < MaxWriteFailures

\* Faulty variant: the id of a created record is not put into the map.
MapAfterInsert_Forgotten(map, tid, id) == map

\* projectMap.set(p.id, data.id) and the like.
MapAfterInsert(map, tid, id) == (tid :> id) @@ map

\* ------------------------------------------------------ 1. projects
projectData(u, p) ==
    [owner_id |-> u,
     parent_id |-> IF p.parent_id # NULL /\ p.parent_id # InboxProject
                   THEN Get(sync.projectMap, p.parent_id) ELSE NULL,
     is_archived |-> FALSE,
     todoist_id |-> p.id]

\* The row that  update ... where id = $id  made by u changes (none: no error).
SyncProjectMatches(u, id) ==
    /\ id \in DOMAIN projects
    /\ ProjectsUpdate(u, id, projects[id])
    /\ ProjectsSelect(u, id, projects[id])

SyncProjectUpdateRes(u, id, row) ==
    IF ~SyncProjectMatches(u, id) THEN Ok
    ELSE IF ~ProjectsUpdate(u, id, row) THEN RlsViolation
    ELSE IF \E q \in DOMAIN projects \ {id} : projects[q].todoist_id = row.todoist_id
    THEN UniqueViolation
    ELSE IF row.parent_id # NULL /\ row.parent_id \notin DOMAIN projects
    THEN FkViolation
    ELSE Ok

SyncProjectInsertRes(u, row) ==
    LET id == FreshId(ProjectIds, projects)
    IN  IF ~(ProjectsInsertCheck(u, id, row) /\ ProjectsSelect(u, id, row))
        THEN RlsViolation
        ELSE IF \E q \in DOMAIN projects : projects[q].todoist_id = row.todoist_id
        THEN UniqueViolation
        ELSE IF row.parent_id # NULL /\ row.parent_id \notin DOMAIN projects
        THEN FkViolation
        ELSE Ok

\* The body of the loop over remaining for the project at its head.
SyncProject(u, ok) ==
    /\ sync.pc = "projects"
    /\ sync.queue # <<>>
    /\ LET p == Head(sync.queue)
           canProcess == \/ p.parent_id = NULL
                         \/ p.parent_id = InboxProject
                         \/ p.parent_id \in sync.processed
           row == projectData(u, p)
           existingOpusId == Get(sync.projectMap, p.id)
       IN  IF ~canProcess
           THEN /\ sync' = [sync EXCEPT !.queue = Tail(@),
                                        !.stillRemaining = Append(@, p)]
                /\ ok
                /\ UNCHANGED projects
           ELSE IF existingOpusId # NULL
           THEN /\ WriteArrives(ok)
                /\ projects' =
                      IF /\ ok
                         /\ SyncProjectUpdateRes(u, existingOpusId, row) = Ok
                         /\ SyncProjectMatches(u, existingOpusId)
                      THEN [projects EXCEPT ![existingOpusId] = Patch(@, row)]
                      ELSE projects
                /\ sync' = [sync EXCEPT
                      !.queue = Tail(@), !.processed = @ \cup {p.id},
                      !.failed = IF ok /\ SyncProjectUpdateRes(u, existingOpusId, row) = Ok
                                 THEN @ ELSE @ + 1]
           ELSE /\ WriteArrives(ok)
                /\ DOMAIN projects # ProjectIds
                /\ LET created == ok /\ SyncProjectInsertRes(u, row) = Ok
                       id == FreshId(ProjectIds, projects)
                   IN  /\ projects' = IF created THEN (id :> row) @@ projects
                                      ELSE projects
                       /\ sync' = [sync EXCEPT
                             !.queue = Tail(@), !.processed = @ \cup {p.id},
                             !.projectMap = IF created
                                            THEN MapAfterInsert(@, p.id, id) ELSE @,
                             !.failed = IF created THEN @ ELSE @ + 1]
    /\ UNCHANGED <<project_shares, sections, tasks, drawer, todoist>>

\* The for loop is through: remaining = stillRemaining, maxIterations--,
\* then the while test; after the loop over the projects the sections,
\* after the one over the tasks the end.
PassEnds ==
    /\ sync.pc \in {"projects", "tasks"}
    /\ sync.queue = <<>>
    /\ sync' =
          IF sync.stillRemaining # <<>> /\ sync.maxIterations - 1 > 0
          THEN [sync EXCEPT !.queue = sync.stillRemaining,
                            !.stillRemaining = <<>>,
                            !.maxIterations = @ - 1]
          ELSE IF sync.pc = "projects"
          THEN [sync EXCEPT !.pc = "sections", !.queue = todoist.sections,
                            !.stillRemaining = <<>>, !.maxIterations = 0,
                            !.processed = {}]
          ELSE [NoSync(sync.run, sync.failed) EXCEPT !.pc = "done"]
    /\ UNCHANGED <<projects, project_shares, sections, tasks, drawer, todoist>>

\* ------------------------------------------------------ 2. sections
sectionData(s) ==
    [project_id |-> Get(sync.projectMap, s.project_id),
     name |-> "a", todoist_id |-> s.id]

SyncSectionMatches(u, id) ==
    /\ id \in DOMAIN sections
    /\ SectionsModify(u, sections[id])
    /\ SectionsSelect(u, sections[id])

SyncSectionUpdateRes(u, id, row) ==
    IF ~SyncSectionMatches(u, id) THEN Ok
    ELSE IF ~SectionsModify(u, row) THEN RlsViolation
    ELSE IF \E q \in DOMAIN sections \ {id} : sections[q].todoist_id = row.todoist_id
    THEN UniqueViolation
    ELSE Ok

SyncSectionInsertRes(u, row) ==
    IF ~(SectionsModify(u, row) /\ SectionsSelect(u, row)) THEN RlsViolation
    ELSE IF \E q \in DOMAIN sections : sections[q].todoist_id = row.todoist_id
    THEN UniqueViolation
    ELSE Ok

\* The body of the loop over the sections for the next section.
SyncSection(u, ok) ==
    /\ sync.pc = "sections"
    /\ sync.queue # <<>>
    /\ LET s == Head(sync.queue)
           row == sectionData(s)
           existingOpusId == Get(sync.sectionMap, s.id)
       IN  IF s.project_id = InboxProject \/ row.project_id = NULL
           THEN /\ sync' = [sync EXCEPT !.queue = Tail(@)]
                /\ ok
                /\ UNCHANGED sections
           ELSE IF existingOpusId # NULL
           THEN /\ WriteArrives(ok)
                /\ sections' =
                      IF /\ ok
                         /\ SyncSectionUpdateRes(u, existingOpusId, row) = Ok
                         /\ SyncSectionMatches(u, existingOpusId)
                      THEN [sections EXCEPT ![existingOpusId] = Patch(@, row)]
                      ELSE sections
                /\ sync' = [sync EXCEPT
                      !.queue = Tail(@),
                      !.failed = IF ok /\ SyncSectionUpdateRes(u, existingOpusId, row) = Ok
                                 THEN @ ELSE @ + 1]
           ELSE /\ WriteArrives(ok)
                /\ DOMAIN sections # SectionIds
                /\ LET created == ok /\ SyncSectionInsertRes(u, row) = Ok
                       id == FreshId(SectionIds, sections)
                   IN  /\ sections' = IF created THEN (id :> row) @@ sections
                                      ELSE sections
                       /\ sync' = [sync EXCEPT
                             !.queue = Tail(@),
                             !.sectionMap = IF created
                                            THEN MapAfterInsert(@, s.id, id) ELSE @,
                             !.failed = IF created THEN @ ELSE @ + 1]
    /\ UNCHANGED <<projects, project_shares, tasks, drawer, todoist>>

\* The loop over the sections is through: the loop over the tasks begins.
SectionsEnd ==
    /\ sync.pc = "sections"
    /\ sync.queue = <<>>
    /\ sync' = [sync EXCEPT !.pc = "tasks", !.queue = sortedTasks,
                            !.stillRemaining = <<>>,
                            !.maxIterations = MaxIterations,
                            !.processed = {}]
    /\ UNCHANGED <<projects, project_shares, sections, tasks, drawer, todoist>>

\* --------------------------------------------------------- 3. tasks
taskData(u, t) ==
    [owner_id |-> u,
     project_id |-> IF t.project_id = InboxProject THEN NULL
                    ELSE Get(sync.projectMap, t.project_id),
     section_id |-> IF t.section_id # NULL
                    THEN Get(sync.sectionMap, t.section_id) ELSE NULL,
     parent_task_id |-> IF t.parent_id # NULL
                        THEN Get(sync.taskMap, t.parent_id) ELSE NULL,
     status |-> IF t.is_completed THEN "done" ELSE "open",
     due_date |-> parseDue(t.due).due_date,
     recurrence_rule |-> parseDue(t.due).recurrence_rule,
     recurrence_base_date |-> parseDue(t.due).recurrence_base_date,
     todoist_id |-> t.id]

SyncTaskMatches(u, id) ==
    /\ id \in DOMAIN tasks
    /\ TasksUpdateUsing(u, tasks[id])
    /\ TasksSelect(u, tasks[id])

SyncTaskUpdateRes(u, id, row) ==
    IF ~SyncTaskMatches(u, id) THEN Ok
    ELSE IF ~TasksUpdateCheck(u, row) THEN RlsViolation
    ELSE IF \E q \in DOMAIN tasks \ {id} : tasks[q].todoist_id = row.todoist_id
    THEN UniqueViolation
    ELSE IF ~TaskRefsExist(row) THEN FkViolation
    ELSE Ok

SyncTaskInsertRes(u, row) ==
    IF ~(TasksInsertCheck(u, row) /\ TasksSelect(u, row)) THEN RlsViolation
    ELSE IF \E q \in DOMAIN tasks : tasks[q].todoist_id = row.todoist_id
    THEN UniqueViolation
    ELSE IF ~TaskRefsExist(row) THEN FkViolation
    ELSE Ok

\* The body of the loop over remainingTasks for the task at its head.
SyncTodoistTask(u, ok) ==
    /\ sync.pc = "tasks"
    /\ sync.queue # <<>>
    /\ LET t == Head(sync.queue)
           canProcess == t.parent_id = NULL \/ t.parent_id \in sync.processed
           isInboxTask == t.project_id = InboxProject
           patch == taskData(u, t)
           existingOpusId == Get(sync.taskMap, t.id)
       IN  IF ~canProcess
           THEN /\ sync' = [sync EXCEPT !.queue = Tail(@),
                                        !.stillRemaining = Append(@, t)]
                /\ ok
                /\ UNCHANGED tasks
           ELSE IF ~isInboxTask /\ patch.project_id = NULL
           THEN /\ sync' = [sync EXCEPT !.queue = Tail(@),
                                        !.processed = @ \cup {t.id}]
                /\ ok
                /\ UNCHANGED tasks
           ELSE IF existingOpusId # NULL
           THEN /\ WriteArrives(ok)
                /\ LET row == Patch(tasks[existingOpusId], patch)
                       updated == ok /\ SyncTaskUpdateRes(u, existingOpusId, row) = Ok
                   IN  /\ tasks' =
                             IF /\ updated
                                /\ SyncTaskMatches(u, existingOpusId)
                             THEN [tasks EXCEPT ![existingOpusId] = row]
                             ELSE tasks
                       /\ sync' = [sync EXCEPT
                             !.queue = Tail(@), !.processed = @ \cup {t.id},
                             !.failed = IF updated THEN @ ELSE @ + 1]
           ELSE /\ WriteArrives(ok)
                /\ DOMAIN tasks # LifeTaskIds
                /\ LET row == Patch(NewTask(u, NULL, NULL), patch)
                       created == ok /\ SyncTaskInsertRes(u, row) = Ok
                       id == FreshId(LifeTaskIds, tasks)
                   IN  /\ tasks' = IF created THEN (id :> row) @@ tasks ELSE tasks
                       /\ sync' = [sync EXCEPT
                             !.queue = Tail(@), !.processed = @ \cup {t.id},
                             !.taskMap = IF created
                                         THEN MapAfterInsert(@, t.id, id) ELSE @,
                             !.failed = IF created THEN @ ELSE @ + 1]
    /\ UNCHANGED <<projects, project_shares, sections, drawer, todoist>>

\* The database is empty and the Todoist account holds some data.
SyncInit ==
    /\ projects = <<>>
    /\ project_shares = <<>>
    /\ sections = <<>>
    /\ tasks = <<>>
    /\ DrawerInit
    /\ sync = NoSync(0, 0)
    /\ \E ps \in TodoistProjects, ss \in TodoistSections, ts \in TodoistTasks :
          todoist = [projects |-> ps, sections |-> ss, tasks |-> ts]

SyncNext ==
    \/ StartRun(SessionUser)
    \/ \E ok \in BOOLEAN : SyncProject(SessionUser, ok)
    \/ PassEnds
    \/ \E ok \in BOOLEAN : SyncSection(SessionUser, ok)
    \/ SectionsEnd
    \/ \E ok \in BOOLEAN : SyncTodoistTask(SessionUser, ok)

SyncSpec == SyncInit /\ [][SyncNext]_vars
\* ---------------------------------------------------------------------
\* The access levels of the specification (Permission Resolver, 4.1).
\* ---------------------------------------------------------------------
resolve(u, p) ==
    IF projects[p].owner_id = u THEN "admin"
    ELSE IF <<p, u>> \in DOMAIN project_shares THEN project_shares[<<p, u>>]
    ELSE "none"

\* canRead of the specification (Visibility Engine, 4.2) for the task t.
CanReadTask(u, t) ==
    \/ tasks[t].project_id = NULL /\ tasks[t].owner_id = u
    \/ tasks[t].project_id # NULL /\ resolve(u, tasks[t].project_id) # "none"

\* canWrite of the specification for the task t.
CanWriteTask(u, t) ==
    \/ tasks[t].project_id = NULL /\ tasks[t].owner_id = u
    \/ tasks[t].project_id # NULL
          /\ resolve(u, tasks[t].project_id) \in {"edit", "admin"}

\* An update of task t that leaves it where it is (a change of its title).
KeepInput(t) == [project_id |-> tasks[t].project_id]

\* C1: a user reads a task exactly when it is the user's own Inbox task or
\* a task of a project the user resolves to a level other than none; the
\* read then returns the task's row.
C1_ReadTask ==
    \A u \in Users, t \in DOMAIN tasks :
        /\ ReadTask(u, t).res = Ok <=> CanReadTask(u, t)
        /\ ReadTask(u, t).res = Ok => ReadTask(u, t).data = {tasks[t]}

\* An Inbox task whose owner has shared a project with another user, who
\* reads the task and gets no row.
C1_Witness ==
    \E u \in Users, t \in DOMAIN tasks, p \in DOMAIN projects :
        /\ tasks[t].project_id = NULL /\ tasks[t].owner_id # u
        /\ projects[p].owner_id = tasks[t].owner_id
        /\ <<p, u>> \in DOMAIN project_shares
        /\ ReadTask(u, t).res = NoRows
\* User u has no access at all to project c, its sections and its tasks:
\* every read returns nothing, every write is refused or touches no row,
\* and u can put no task into c.
NoAccess(u, c) ==
    /\ ReadProject(u, c).res = NoRows
    /\ \A input \in ProjectInputs : UpdateProjectRes(u, c, input) # Ok
    /\ DeleteProjectRows(u, c) = {}
    /\ ReadSections(u, c) = {}
    /\ \A n \in SectionNames : CreateSectionRes(u, c, n) # Ok
    /\ \A s \in DOMAIN sections :
          sections[s].project_id = c =>
             /\ \A n \in SectionNames : UpdateSectionRes(u, s, n) # Ok
             /\ DeleteSectionRows(u, s) = {}
    /\ \A s \in SectionIds \cup {NULL} : CreateTaskRes(u, c, s) # Ok
    /\ \A t \in DOMAIN tasks, input \in TaskInputs :
          input.project_id = c => UpdateTaskRes(u, t, input) # Ok
    /\ \A t \in DOMAIN tasks :
          tasks[t].project_id = c =>
             /\ ReadTask(u, t).res = NoRows
             /\ \A input \in TaskInputs \cup {KeepInput(t)} :
                   UpdateTaskRes(u, t, input) # Ok
             /\ DeleteTaskRows(u, t) = {}
             /\ \A s \in SectionIds : DetachTasks(u, s)[t] = tasks[t]

\* C2: a share on the parent project, of any level, gives no access to a
\* child project that the user neither owns nor holds a share on, nor to the
\* child's sections or tasks.
C2_NoInheritance ==
    \A u \in Users, c \in DOMAIN projects :
        (/\ projects[c].parent_id # NULL
         /\ <<projects[c].parent_id, u>> \in DOMAIN project_shares
         /\ projects[c].owner_id # u
         /\ <<c, u>> \notin DOMAIN project_shares)
        => NoAccess(u, c)

\* A user holding edit on the parent, and a child project of another owner
\* with a section and a task in it.
C2_Witness ==
    \E u \in Users, c \in DOMAIN projects :
        /\ projects[c].parent_id # NULL
        /\ <<projects[c].parent_id, u>> \in DOMAIN project_shares
        /\ project_shares[<<projects[c].parent_id, u>>] = "edit"
        /\ projects[c].owner_id # u
        /\ <<c, u>> \notin DOMAIN project_shares
        /\ \E s \in DOMAIN sections : sections[s].project_id = c
        /\ \E t \in DOMAIN tasks : tasks[t].project_id = c
        /\ NoAccess(u, c)
\* C3 (as claimed): a user can update a task of project p exactly when the
\* user resolves to edit or admin on p; so p's owner can update every task
\* of p, and a user with view on p none.
C3_UpdateIffEditor ==
    \A u \in Users, t \in DOMAIN tasks :
        tasks[t].project_id # NULL =>
            (UpdateTaskRes(u, t, KeepInput(t)) = Ok
                <=> resolve(u, tasks[t].project_id) \in {"edit", "admin"})

\* Task t comes to reference project p in this step.
Placed(t, p) ==
    /\ t \in DOMAIN tasks'
    /\ tasks'[t].project_id = p
    /\ t \notin DOMAIN tasks \/ tasks[t].project_id # p

\* C4 (as claimed): a task comes to reference project p, by being created
\* in p or moved to p, only through a request of a user who resolves to edit
\* or admin on p.
C4_PlacedOnlyByEditor ==
    [][\A u \in Users, t \in TaskIds, p \in DOMAIN projects :
          (/\ Placed(t, p)
           /\ \/ \E s \in SectionIds \cup {NULL} : CreateTask(u, p, s)
              \/ \E input \in TaskInputs : UpdateTask(u, t, input))
          => resolve(u, p) \in {"edit", "admin"}]_vars

\* C5 (as claimed): a delete request of user u removes task t exactly when
\* u can write t.
C5_DeleteIffWriter ==
    \A u \in Users, t \in DOMAIN tasks :
        DeleteTaskRows(u, t) = {t} <=> CanWriteTask(u, t)
\* C6: a user reads project p and all its sections exactly when the user
\* resolves to a level other than none on p, and updates p and creates,
\* updates and deletes sections of p exactly when that level is edit or admin.
C6_ProjectAndSections ==
    \A u \in Users, p \in DOMAIN projects :
        LET mine == {s \in DOMAIN sections : sections[s].project_id = p}
            reader == resolve(u, p) # "none"
            editor == resolve(u, p) \in {"edit", "admin"}
        IN  /\ ReadProject(u, p).res = Ok <=> reader
            /\ ReadSections(u, p) = IF reader THEN mine ELSE {}
            /\ \A input \in ProjectInputs :
                  UpdateProjectRes(u, p, input) = Ok <=> editor
            /\ \A n \in SectionNames : CreateSectionRes(u, p, n) = Ok <=> editor
            /\ \A s \in mine :
                  /\ \A n \in SectionNames : UpdateSectionRes(u, s, n) = Ok <=> editor
                  /\ DeleteSectionRows(u, s) = {s} <=> editor

\* A project with a section, and a user with a view share on it who reads
\* the section and cannot change it.
C6_Witness ==
    \E u \in Users, p \in DOMAIN projects, s \in DOMAIN sections :
        /\ sections[s].project_id = p
        /\ resolve(u, p) = "view"
        /\ ReadSections(u, p) = {s}
        /\ DeleteSectionRows(u, s) = {}

\* C7: a delete request for project p by a user other than p's owner, a
\* holder of an admin share included, changes nothing; and a project goes
\* away only in a delete request that its requester owns the target of (the
\* project itself or the ancestor it is deleted with).
C7_OnlyOwnerDeletes ==
    [][/\ \A u \in Users, p \in DOMAIN projects :
             projects[p].owner_id # u /\ DeleteProject(u, p) => UNCHANGED vars
       /\ \A p \in DOMAIN projects \ DOMAIN projects' :
             \E u \in Users, q \in DOMAIN projects :
                /\ DeleteProject(u, q)
                /\ projects[q].owner_id = u
                /\ p \in Descendants({q}, MaxProjects)]_vars

\* A project with a section, a subproject and an admin share, whose delete
\* by the holder of that share matches no row.
C7_Witness ==
    \E u \in Users, p \in DOMAIN projects :
        /\ projects[p].owner_id # u
        /\ resolve(u, p) = "admin"
        /\ \E s \in DOMAIN sections : sections[s].project_id = p
        /\ \E c \in DOMAIN projects : projects[c].parent_id = p
        /\ DeleteProjectRows(u, p) = {}

\* The share row keyed by k is created, changed or removed in this step.
ShareChanged(k) ==
    \/ k \in DOMAIN project_shares /\ k \notin DOMAIN project_shares'
    \/ k \notin DOMAIN project_shares /\ k \in DOMAIN project_shares'
    \/ /\ k \in DOMAIN project_shares /\ k \in DOMAIN project_shares'
       /\ project_shares[k] # project_shares'[k]

\* C8: a request that creates, changes or revokes a share row of project p
\* is made by p's owner or by a holder of an admin share on p; a share row
\* changes in no other way, except that it goes away with its project.
C8_SharesOnlyByOwnerOrAdmin ==
    [][\A p \in ProjectIds, w \in Users :
          ShareChanged(<<p, w>>) =>
             /\ \A u \in Users, perm \in SharePermission :
                   \/ p \in DOMAIN projects /\ resolve(u, p) = "admin"
                   \/ ~(\/ CreateShare(u, p, w, perm)
                        \/ UpdateShare(u, p, w, perm)
                        \/ DeleteShare(u, p, w))
             /\ \/ p \notin DOMAIN projects'
                \/ \E u \in Users, perm \in SharePermission :
                      \/ CreateShare(u, p, w, perm)
                      \/ UpdateShare(u, p, w, perm)
                      \/ DeleteShare(u, p, w)]_vars

\* A holder of an admin share who is not the owner and can change the
\* share row of another user.
C8_Witness ==
    \E u, w \in Users, p \in DOMAIN projects :
        /\ projects[p].owner_id # u
        /\ u # w
        /\ resolve(u, p) = "admin"
        /\ ShareRows(u, p, w) = {<<p, w>>}

\* C9: no request changes the owner of a project, and a new project is
\* owned by the user who made the create request.
C9_OwnerNeverChanges ==
    [][/\ \A p \in DOMAIN projects \cap DOMAIN projects' :
             projects'[p].owner_id = projects[p].owner_id
       /\ \A p \in DOMAIN projects' \ DOMAIN projects :
             \A u \in Users, parent \in ProjectIds \cup {NULL} :
                CreateProject(u, parent) => projects'[p].owner_id = u]_vars

\* An archived project with a sharee of level edit: an update has been
\* applied, and a sharee is able to apply more.
C9_Witness ==
    \E u \in Users, p \in DOMAIN projects :
        /\ projects[p].is_archived
        /\ projects[p].owner_id # u
        /\ resolve(u, p) = "edit"
        /\ UpdateProjectRes(u, p, [is_archived |-> FALSE]) = Ok

\* An id that keys no row of any table.
MissingId == MaxProjects + MaxTasks + 1

\* C10: reading a task, or a project, that exists but that the user cannot
\* read gives exactly the result of reading an id that does not exist.
C10_ReadMasksExistence ==
    \A u \in Users :
        /\ \A t \in DOMAIN tasks :
              ~CanReadTask(u, t) => ReadTask(u, t) = ReadTask(u, MissingId)
        /\ \A p \in DOMAIN projects :
              resolve(u, p) = "none" => ReadProject(u, p) = ReadProject(u, MissingId)

\* A task in a project, both hidden from a user, who gets the error of
\* .single() on no row for each.
C10_Witness ==
    \E u \in Users, t \in DOMAIN tasks :
        /\ tasks[t].project_id # NULL
        /\ resolve(u, tasks[t].project_id) = "none"
        /\ ReadTask(u, t).res = NoRows
        /\ ReadProject(u, tasks[t].project_id).res = NoRows

\* ---------------------------------------------------------------------
\* Task life cycle (TaskSpec) and deletion cascades.
\* ---------------------------------------------------------------------
\* An id that keys no task.
MissingTask == MaxLifeTasks + 1

\* u can write the task t: an update that changes nothing succeeds.
WritableBy(u, t) == UpdateTaskRes(u, t, [blocked_by |-> tasks[t].blocked_by]) = Ok

\* C11: a user who points blocked_by of a task they can write at an id sees
\* the same outcome for the id of a task hidden from them as for an id that
\* keys no task.
C11_ReferenceMasksExistence ==
    \A u \in Users, t \in DOMAIN tasks, h \in DOMAIN tasks :
        WritableBy(u, t) /\ ~TasksSelect(u, tasks[h])
           => UpdateTaskRes(u, t, [blocked_by |-> h])
                 = UpdateTaskRes(u, t, [blocked_by |-> MissingTask])

\* C12: a deletion of project p by its owner removes p, the subprojects
\* below p and the sections of all of them, and removes no task; every
\* task that was in one of these projects is afterwards in the Inbox
\* (no project) and has no section.
C12_DeleteProjectCascade ==
    [][\A u \in Users, p \in DOMAIN projects :
          projects[p].owner_id = u /\ DeleteProject(u, p)
             => LET D == Descendants({p}, MaxProjects)
                IN  /\ DOMAIN projects' = DOMAIN projects \ D
                    /\ DOMAIN sections' =
                          {s \in DOMAIN sections : sections[s].project_id \notin D}
                    /\ DOMAIN tasks' = DOMAIN tasks
                    /\ \A t \in DOMAIN tasks :
                          tasks[t].project_id \in D
                             => /\ tasks'[t].project_id = NULL
                                /\ tasks'[t].section_id = NULL]_vars

\* The tasks that go away when task x is deleted: x and its subtasks.
GoneWith(x) == Subtasks({x}, Cardinality(DOMAIN tasks))

RECURSIVE PredecessorChain(_, _)
PredecessorChain(t, n) ==
    IF n = 0 \/ t \notin DOMAIN tasks \/ tasks[t].blocked_by = NULL THEN {}
    ELSE {tasks[t].blocked_by} \cup PredecessorChain(tasks[t].blocked_by, n - 1)

\* C14: a request that sets the predecessor of task a to task b is refused
\* when a is b or a is in the predecessor chain of b, and no task is in its
\* own predecessor chain.
C14_NoPredecessorCycle ==
    /\ \A u \in Users, a \in DOMAIN tasks, b \in DOMAIN tasks :
          a = b \/ a \in PredecessorChain(b, MaxLifeTasks)
             => UpdateTaskRes(u, a, [blocked_by |-> b]) # Ok
    /\ \A t \in DOMAIN tasks : t \notin PredecessorChain(t, MaxLifeTasks)

\* Blocked, derived from the stored rows: the predecessor is set and its
\* status is not done.
isBlocked(y) ==
    /\ tasks[y].blocked_by # NULL
    /\ tasks[tasks[y].blocked_by].status # "done"

\* C15: no row stores a blocked flag; a completion of task x leaves every
\* other row as it is and every task whose predecessor is x is unblocked
\* after it; a reopening of x leaves every other row as it is and every
\* task whose predecessor is x is blocked after it.
C15_BlockedIsDerived ==
    [][\A u \in Users, x \in DOMAIN tasks :
          /\ CompleteTaskRes(u, x) = Ok /\ CompleteTask(u, x)
                => \A y \in DOMAIN tasks \ {x} :
                      /\ tasks'[y] = tasks[y]
                      /\ "blocked" \notin DOMAIN tasks'[y]
                      /\ tasks[y].blocked_by = x => ~isBlocked(y)'
          /\ UncompleteTaskRes(u, x) = Ok /\ UncompleteTask(u, x)
                => \A y \in DOMAIN tasks \ {x} :
                      /\ tasks'[y] = tasks[y]
                      /\ "blocked" \notin DOMAIN tasks'[y]
                      /\ tasks[y].blocked_by = x => isBlocked(y)']_vars

\* A completed task x with a dependent y, which is unblocked although
\* nothing was written to it, and a user who can reopen x.
C15_Witness ==
    \E u \in Users, x \in DOMAIN tasks, y \in DOMAIN tasks :
        /\ y # x
        /\ tasks[y].blocked_by = x
        /\ tasks[x].status = "done" /\ tasks[x].completed_at = Now
        /\ tasks[y].status = "open"
        /\ ~isBlocked(y)
        /\ UncompleteTaskRes(u, x) = Ok

\* The step completes the open task x on behalf of u.
Completes(u, x) ==
    /\ tasks[x].status = "open"
    /\ CompleteTaskRes(u, x) = Ok
    /\ CompleteTask(u, x)

\* C16: a completion of a task with a recurrence rule creates, in the same
\* step, exactly one task: open, not completed, without predecessor, with
\* the project, section and rule of the completed task; a completion of a
\* task without a rule creates no task.
C16_SuccessorIffRule ==
    [][\A u \in Users, x \in DOMAIN tasks :
          Completes(u, x)
             => IF tasks[x].recurrence_rule = NULL
                THEN DOMAIN tasks' = DOMAIN tasks
                ELSE \E n \in DOMAIN tasks' \ DOMAIN tasks :
                        /\ DOMAIN tasks' = DOMAIN tasks \cup {n}
                        /\ tasks'[n].status = "open"
                        /\ tasks'[n].completed_at = NULL
                        /\ tasks'[n].blocked_by = NULL
                        /\ tasks'[n].project_id = tasks[x].project_id
                        /\ tasks'[n].section_id = tasks[x].section_id
                        /\ tasks'[n].recurrence_rule = tasks[x].recurrence_rule]_vars

\* The earliest day strictly after day d that is a Monday or a Thursday
\* (day Monday is a Monday).
NextMondayOrThursday(d) ==
    LET weekday == (d - Monday) % 7
    IN  IF weekday < 3 THEN d + (3 - weekday) ELSE d + (7 - weekday)

\* C17: a completion of a task whose rule is weekly on Monday and Thursday
\* creates a task due on the earliest Monday or Thursday after the anchor:
\* the Thursday three days after an anchor that is a Monday, the Monday
\* four days after an anchor that is a Thursday.
C17_WeeklyNextOccurrence ==
    [][\A u \in Users, x \in DOMAIN tasks :
          /\ Completes(u, x)
          /\ tasks[x].recurrence_rule = WeeklyMoTh
          /\ tasks[x].recurrence_base_date \in {Monday, Monday + 3}
          => \E n \in DOMAIN tasks' \ DOMAIN tasks :
                tasks'[n].due_date =
                   NextMondayOrThursday(tasks[x].recurrence_base_date)]_vars

\* C18: the completion timestamp of a task is set exactly when its status
\* is done.
C18_CompletedAtIffDone ==
    \A t \in DOMAIN tasks :
        tasks[t].completed_at # NULL <=> tasks[t].status = "done"

\* C19: every task that has a section has a project, and the section is a
\* section of that project.
C19_SectionOfSameProject ==
    \A t \in DOMAIN tasks :
        tasks[t].section_id # NULL
           => /\ tasks[t].project_id # NULL
              /\ sections[tasks[t].section_id].project_id = tasks[t].project_id

\* C20: a completion of a task whose status is cancelled is refused (and
\* so leaves the status and the completion timestamp as they are).
C20_CancelledNotCompleted ==
    \A u \in Users, x \in DOMAIN tasks :
        tasks[x].status = "cancelled" => CompleteTaskRes(u, x) # Ok

\* ---------------------------------------------------------------------
\* Maestro: proposals, approval, the Action Queue.
\* ---------------------------------------------------------------------
\* What is stored.
Stored == <<projects, project_shares, sections, tasks>>

\* A step of a call of handleSubmit (of chat inside it).
ChatStep == submit' # submit

\* The calls of handleApproveActions whose loop has not ended: each of them
\* awaits the action at its position.
Executing == {k \in DOMAIN approvals : ~Returned(approvals[k])}

\* The actions that the call k has awaited to their end.
Attempted(k) ==
    {approvals[k].actionsToExecute[i].id : i \in 1..(approvals[k].pos - 1)}

\* C21, first part: a step of a chat request leaves the stored tables as
\* they are, and one that ends in an error leaves the queue as it is.
C21_ChatLeavesStore ==
    [][ChatStep =>
          /\ UNCHANGED Stored
          /\ error' # NoError => UNCHANGED <<pendingActions, selectedActions>>]_vars

\* C21, second part: a step of the drawer that changes a stored table is
\* the next action, in the order of the queue at the click, of a call of
\* handleApproveActions.
C21_OnlyApprovalsWrite ==
    [][Stored' # Stored /\ drawer' # drawer =>
          \E k \in Executing :
             /\ approvals' = [approvals EXCEPT ![k] = approvals'[k]]
             /\ approvals'[k].pos = approvals[k].pos + 1
             /\ approvals'[k].actionsToExecute = approvals[k].actionsToExecute]_vars

\* C21: requesting or receiving proposals changes no stored task or
\* project (a failed chat call leaves also the queue as it was); a proposed
\* action is executed only by an approval, and approved actions are
\* executed one at a time, each finishing before the next starts.
C21_ProposalsNeverWriteOneAtATime ==
    /\ C21_ChatLeavesStore
    /\ C21_OnlyApprovalsWrite
    /\ [](Cardinality(Executing) <= 1)

\* The action a is in the queue with its box unchecked.
Unchecked(a) == a \in ActionIdsOf(pendingActions) /\ a \notin selectedActions

\* The action a was not selected at a click on Approve Selected whose
\* batch is still executed.
NotApproved(a) ==
    \A k \in Executing : a \notin ActionIdsOf(approvals[k].actionsToExecute)

\* C22: an action that is pending and unchecked (and in no batch that is
\* being executed) is not taken by Approve Selected, and stays pending and
\* unchecked in every step that is not the user's click on its box (or on
\* Clear all).
C22_UncheckedStaysUnchecked ==
    [][\A a \in ActionIds :
          (/\ Unchecked(a) /\ NotApproved(a)
           /\ ~toggleAction(a) /\ ~handleClearActions) =>
             /\ Unchecked(a)'
             /\ \A k \in DOMAIN approvals' \ DOMAIN approvals :
                   a \notin ActionIdsOf(approvals'[k].actionsToExecute)]_vars

\* C23: when a call of handleApproveActions has ended, an action of it that
\* failed is still in the queue or an error is shown.
C23_FailureSurfaced ==
    \A k \in DOMAIN approvals :
       Returned(approvals[k]) =>
          \A a \in approvals[k].failed :
             a \in ActionIdsOf(pendingActions) \/ error # NoError

\* The awaited action of the call k fails in this step.
Fails(k) ==
    /\ k \in Executing
    /\ k \in DOMAIN approvals'
    /\ approvals'[k].failed # approvals[k].failed

\* C24: when an action of a batch fails, nothing stored changes (what the
\* earlier actions wrote stays), the loop goes on to the next action of the
\* same batch, and a batch ends only behind its last action.
C24_FailureDoesNotAbort ==
    [][\A k \in ApprovalIds :
          /\ Fails(k) =>
                /\ UNCHANGED Stored
                /\ approvals'[k].pos = approvals[k].pos + 1
                /\ approvals'[k].actionsToExecute = approvals[k].actionsToExecute
          /\ k \in Executing => k \in DOMAIN approvals']_vars

\* A batch of two has ended: its first action failed, its second one was
\* executed after it.
C24_Witness ==
    \E k \in DOMAIN approvals :
       /\ Returned(approvals[k])
       /\ Len(approvals[k].actionsToExecute) = 2
       /\ approvals[k].actionsToExecute[1].id \in approvals[k].failed
       /\ approvals[k].actionsToExecute[2].type = "create_task"
       /\ approvals[k].actionsToExecute[2].id \notin approvals[k].failed
       /\ tasks # <<>>

\* The action a is in no queue and in no other call of handleApproveActions
\* than k: it was discarded with Clear all.
Discarded(k, a) ==
    /\ a \notin ActionIdsOf(pendingActions)
    /\ \A j \in DOMAIN approvals \ {k} :
          a \notin ActionIdsOf(approvals[j].actionsToExecute)

\* C25: Clear all can be clicked whenever something is pending and changes
\* nothing stored, and no call of handleApproveActions begins to execute an
\* action that was discarded.
C25_DiscardedNeverApplied ==
    /\ [](Len(pendingActions) > 0 => ENABLED handleClearActions)
    /\ [][handleClearActions => UNCHANGED Stored]_vars
    /\ [][\A k \in Executing :
             /\ approvals'[k].pos = approvals[k].pos + 1
             /\ ~Returned(approvals'[k])
             => ~Discarded(k, approvals[k].actionsToExecute[approvals'[k].pos].id)]_vars

\* A transient service error: the message names 500, internal server, 529
\* or overloaded, in any case.
Transient(m) ==
    toLowerCase(m) \cap {"500", "internal server", "529", "overloaded"} # {}

\* The categorized messages.
Categories ==
    {InvalidKey, RateLimited, Unavailable, Overloaded, QuotaExceeded, Generic}

\* C26: a chat request makes at most two calls of the AI service; a call
\* that fails with a transient error is followed, if it was the first, by a
\* wait and a second call, any other failed call ends the request with
\* exactly one categorized message; and every request ends.
C26_ChatTerminates ==
    /\ [](submit.calls <= 2)
    /\ [][\A m \in ErrorMessages :
             CreateRejects(m) =>
                IF Transient(m) /\ submit.calls < 2
                THEN /\ submit'.pc = "wait"
                     /\ isLoading' /\ error' = NoError
                ELSE /\ submit'.pc = "idle"
                     /\ ~isLoading' /\ error' \in Categories]_vars
    /\ [][submit.pc = "wait" /\ submit'.pc # "wait" =>
             submit'.pc = "call" /\ submit'.calls = submit.calls + 1]_vars
    /\ (submit.pc = "wait") ~> (submit.pc = "call")
    /\ isLoading ~> ~isLoading

\* A request has ended in failure after its second call.
C26_Witness ==
    /\ submit.pc = "idle"
    /\ submit.calls = 2
    /\ ~isLoading
    /\ error \in {Unavailable, Overloaded, Generic}


\* ---------------------------------------------------------------------
\* The Todoist sync, run twice.
\* ---------------------------------------------------------------------
\* Each Todoist id is carried by at most one row of the table.
OneRecordPerTodoistId(table) ==
    \A a \in DOMAIN table, b \in DOMAIN table :
       a # b /\ table[a].todoist_id # NULL =>
          table[a].todoist_id # table[b].todoist_id

C28_ExecutedAtMostOnce ==
    \A j \in DOMAIN approvals, k \in DOMAIN approvals :
       j # k => Attempted(j) \cap Attempted(k) = {}

\* C29: when the refetch of a chat request resolves, the context that the
\* request sends to the AI is the snapshot that the refetch has fetched.
C29_ContextIsRefetched ==
    [][submit.pc = "refetch" /\ submit'.pc = "call" =>
          submit'.context = context']_vars

\* ---------------------------------------------------------------------
\* The tree of useTasks.
\* ---------------------------------------------------------------------
\* The views of useTasks that do not depend on a project or a date.
TaskViews == {"inbox", "all"}

\* allTasks: the open tasks that the query of the view returns to u.
allTasks(u, view) ==
    {t \in DOMAIN tasks :
        /\ TasksSelect(u, tasks[t])
        /\ tasks[t].status = "open"
        /\ view = "inbox" => tasks[t].project_id = NULL}

\* The places of the tree that useTasks builds from the fetched tasks, each
\* as the path from a task of topLevelTasks down through the subtasks
\* arrays: a task without parent is pushed to topLevelTasks, a task whose
\* parent is fetched to the subtasks of the parent, any other nowhere.
RECURSIVE TreePaths(_, _)
TreePaths(fetched, depth) ==
    IF depth = 0 THEN {}
    ELSE {<<t>> : t \in {r \in fetched : tasks[r].parent_task_id = NULL}}
           \cup UNION {{Append(path, t) :
                          t \in {r \in fetched :
                                   tasks[r].parent_task_id = path[Len(path)]}} :
                       path \in TreePaths(fetched, depth - 1)}

\* How often task t occurs in the tree useTasks returns for the view.
Occurrences(u, view, t) ==
    Cardinality({path \in TreePaths(allTasks(u, view), MaxLifeTasks) :
                    path[Len(path)] = t})

\* C30: every open task fetched for a view occurs exactly once in the tree
\* returned for the view.
C30_EveryFetchedTaskOnce ==
    \A u \in Users, view \in TaskViews :
       \A t \in allTasks(u, view) : Occurrences(u, view, t) = 1

====
